---- MODULE Spec2Model ----
(***************************************************************************)
(* The MNIST transform notebook (datasets/mnist_transforms.ipynb): two     *)
(* Lambda transforms, a Compose of convert_to_RGB, Resize, sharpen and     *)
(* ToTensor, an MNIST dataset carrying that transform and a DataLoader     *)
(* with batch_size=1 from which batches are drawn.                         *)
(*                                                                         *)
(* A PIL image is a record [mode, w, h, tile, hist]: its pixels are those  *)
(* of a 2x2 tile repeated over w x h, followed by the pixel operations of  *)
(* hist, and PixelAt computes the bands of one pixel from that.  A tensor  *)
(* is a record [type, dtype, shape, scale, data]: element e stands for the *)
(* number data[e] / scale.                                                 *)
(***************************************************************************)
EXTENDS Integers, Sequences, FiniteSets, TLC

\* ---------------------------------------------------------------- bounds
\* Length of the dataset the loader iterates over.
NumSamples == 2
\* A dimension of at most FullDim is read at every coordinate, a longer one
\* at the coordinates of Probe.
FullDim == 4
\* Number of times the loader is iterated from its first sample.
MaxEpochs == 2

\* ------------------------------------------------------ program constants
\* torchvision.transforms.Resize(size=256)
ResizeSize == 256
\* DataLoader(mnist_trainset, batch_size=1)
BatchSize == 1
\* DataLoader's default num_workers: samples are fetched in the caller.
NumWorkers == 0
\* Pillow's fixed-point precision of 8-bit resampling (32 - 8 - 2).
PRECISION_BITS == 22
\* Largest value of an 8-bit band; ToTensor divides by it.
MaxPixel == 255

VARIABLES
    pc,             \* the notebook cell to run next
    data,           \* the (image, label) pairs stored under path_to_mnist
    convert_to_RGB, \* cell 5
    sharpen,        \* cell 6
    transform,      \* cell 7: the Compose
    mnist_trainset, \* cell 8: the dataset object
    train_loader,   \* cell 8: the loader object
    it,             \* the loader iterator's next index, -1 before iter()
    epoch,          \* the number of iterators made so far
    jobs,           \* the __getitem__ calls that are being evaluated
    img, lbl,       \* cell 9: the batch last returned by next()
    err,            \* the exception that ended the run
    calls           \* the completed calls of the pipeline and what they returned

vars == <<pc, data, convert_to_RGB, sharpen, transform, mnist_trainset,
          train_loader, it, epoch, jobs, img, lbl, err, calls>>

\* ---------------------------------------------------------------- helpers
Max(a, b) == IF a >= b THEN a ELSE b
Min(a, b) == IF a <= b THEN a ELSE b
Abs(a) == IF a >= 0 THEN a ELSE -a

RECURSIVE Pow2(_)
Pow2(n) == IF n = 0 THEN 1 ELSE 2 * Pow2(n - 1)

RECURSIVE SumRange(_, _, _)
SumRange(f, lo, hi) == IF lo > hi THEN 0 ELSE f[lo] + SumRange(f, lo + 1, hi)

\* No saturation: the value as computed.
ClipNone(v) == v

\* Pillow's clip8 / (UINT8) saturation of a band value.
Clip8(v) == IF v <= 0 THEN 0 ELSE IF v >= MaxPixel THEN MaxPixel ELSE v

\* ------------------------------------------------ img.convert('RGB'), pixel
\* L replicates its band, RGBA drops alpha, RGB is copied.
ToRGBPixel(m, p) ==
    CASE m = "L" -> <<p[1], p[1], p[1]>>
      [] m = "RGBA" -> <<p[1], p[2], p[3]>>
      [] OTHER -> p

\* --------------------------------------- Image.resize(..., BILINEAR), pixel
\* Pillow's precompute_coeffs for the triangle filter, in exact arithmetic:
\* with F = max(inS, outS), centre = (2xx+1) inS / (2 outS), support = F/outS.
TapMin(inS, outS, xx) ==
    Max(0, ((2 * xx + 1) * inS - 2 * Max(inS, outS) + outS) \div (2 * outS))

TapMax(inS, outS, xx) ==
    Min(inS, ((2 * xx + 1) * inS + 2 * Max(inS, outS) + outS) \div (2 * outS))

\* Weight of input index j, in units of 1 / (2F).
TapWeight(inS, outS, xx, j) ==
    Max(0, 2 * Max(inS, outS) - Abs((2 * j + 1) * outS - (2 * xx + 1) * inS))

\* normalize_coeffs_8bpc: round(w / ww * 2^PRECISION_BITS), computed in two
\* halves of the shift so that no intermediate leaves 32 bits.
FixedCoef(w, ww) ==
    LET h == Pow2(PRECISION_BITS \div 2)
        q1 == (w * h) \div ww
        r1 == (w * h) % ww
        q2 == (r1 * h) \div ww
        r2 == (r1 * h) % ww
    IN q1 * h + q2 + (IF 2 * r2 >= ww THEN 1 ELSE 0)

\* One pass of ImagingResample along one axis: line[j] are the bands of the
\* input pixels of the line, the result the bands of output pixel xx.
ResampleLine(line, inS, outS, xx) ==
    LET lo == TapMin(inS, outS, xx)
        hi == TapMax(inS, outS, xx) - 1
        wt == [j \in lo..hi |-> TapWeight(inS, outS, xx, j)]
        ww == SumRange(wt, lo, hi)
        kk == [j \in lo..hi |-> FixedCoef(wt[j], ww)]
    IN [b \in 1..Len(line[lo]) |->
          LET prod == [j \in lo..hi |-> kk[j] * line[j][b]]
          IN Clip8((Pow2(PRECISION_BITS - 1) + SumRange(prod, lo, hi))
                     \div Pow2(PRECISION_BITS))]

\* The bands of pixel (x, y) of the tile after the first n operations of hist.
RECURSIVE Px(_, _, _, _, _)

\* Horizontal pass, then vertical pass; a pass is skipped when its size is
\* kept.  The input image is the tile after the first n operations of hist.
ResamplePixel(tile, hist, n, iw, ih, ow, oh, x, y) ==
    LET P(i, j) == Px(tile, hist, n, i, j)
        H(i, j) == IF iw = ow THEN P(i, j)
                   ELSE ResampleLine([c \in TapMin(iw, ow, i)..(TapMax(iw, ow, i) - 1)
                                        |-> P(c, j)], iw, ow, i)
    IN IF ih = oh THEN H(x, y)
       ELSE ResampleLine([r \in TapMin(ih, oh, y)..(TapMax(ih, oh, y) - 1)
                            |-> H(x, r)], ih, oh, y)

\* ---------------------------------- img.filter(ImageFilter.SHARPEN), pixel
\* The 3x3 kernel (-2 -2 -2 / -2 32 -2 / -2 -2 -2) / 16, rounded and clipped
\* to 0..255; the pixels of the one-pixel border are copied.
SharpenPixel(tile, hist, n, w, h, x, y) ==
    IF x = 0 \/ y = 0 \/ x = w - 1 \/ y = h - 1 THEN Px(tile, hist, n, x, y)
    ELSE LET P(i, j) == Px(tile, hist, n, i, j)
             nb == [d \in (0..2) \X (0..2) |-> P(x + d[1] - 1, y + d[2] - 1)]
         IN [b \in 1..Len(nb[<<1, 1>>]) |->
               LET col == [i \in 0..2 |-> nb[<<i, 0>>][b] + nb[<<i, 1>>][b] + nb[<<i, 2>>][b]]
               IN Clip8((34 * nb[<<1, 1>>][b] - 2 * SumRange(col, 0, 2) + 8) \div 16)]

\* ------------------------------------------------------------ PIL images
Px(tile, hist, n, x, y) ==
    IF n = 0 THEN tile[(y % 2) + 1][(x % 2) + 1]
    ELSE LET e == hist[n]
         IN CASE e.op = "convert" -> ToRGBPixel(e.m, Px(tile, hist, n - 1, x, y))
              [] e.op = "resize" ->
                    ResamplePixel(tile, hist, n - 1, e.iw, e.ih, e.ow, e.oh, x, y)
              [] e.op = "sharpen" -> SharpenPixel(tile, hist, n - 1, e.ow, e.oh, x, y)

\* The bands of pixel (x, y) of an image.
PixelAt(im, x, y) == Px(im.tile, im.hist, Len(im.hist), x, y)

Op(op, m, iw, ih, ow, oh) ==
    [op |-> op, m |-> m, iw |-> iw, ih |-> ih, ow |-> ow, oh |-> oh]

Bands(mode) == CASE mode = "L" -> 1 [] mode = "RGBA" -> 4 [] OTHER -> 3

\* The coordinates of a dimension of length n that are read.
Probe(n) == IF n <= FullDim THEN 0..(n - 1)
            ELSE {0, 1, n \div 2, n - 2, n - 1}

\* Two images are the same image: mode, size and pixels.
SameImage(a, b) ==
    /\ a.mode = b.mode /\ a.w = b.w /\ a.h = b.h
    /\ \A x \in Probe(a.w), y \in Probe(a.h) : PixelAt(a, x, y) = PixelAt(b, x, y)

\* ------------------------------------------------------------- transforms
\* A conversion that takes the bands in reverse order (BGR for RGB), also of
\* an image that already is RGB.
ConvertSwapped(im) ==
    [im EXCEPT !.mode = "RGB",
               !.tile = [r \in 1..2 |-> [c \in 1..2 |->
                           LET p == ToRGBPixel(im.mode, im.tile[r][c])
                           IN <<p[3], p[2], p[1]>>]]]

\* PIL's Image.convert('RGB'): an image already in the mode is copied.
ConvertToRGB(im) ==
    IF im.mode = "RGB" THEN im
    ELSE [im EXCEPT !.mode = "RGB",
                    !.hist = Append(@, Op("convert", im.mode, im.w, im.h, im.w, im.h))]

\* Python's int(a / b) for b > 0: the quotient truncated towards zero.
IntOf(a, b) == IF a >= 0 THEN a \div b ELSE -((-a) \div b)

\* The longer edge, instead of the shorter one, becomes size.
ResizedSizeLonger(size, w, h) ==
    IF w >= h THEN <<size, IntOf(size * h, w)>> ELSE <<IntOf(size * w, h), size>>

\* torchvision's resize for an int size: the shorter edge becomes size and
\* the longer one int(size * long / short).
ResizedSize(size, w, h) ==
    IF w <= h THEN <<size, IntOf(size * h, w)>> ELSE <<IntOf(size * w, h), size>>

\* Image.resize raises ValueError("height and width must be > 0").
ResizeRaises(size, im) ==
    /\ Min(im.w, im.h) # size
    /\ \/ ResizedSize(size, im.w, im.h)[1] < 1
       \/ ResizedSize(size, im.w, im.h)[2] < 1

\* A resize that resamples every image, also one whose shorter edge is size.
ResizeAlways(size, im) ==
    LET new == ResizedSize(size, im.w, im.h)
    IN [im EXCEPT !.w = new[1], !.h = new[2],
                  !.hist = Append(@, Op("resize", im.mode, im.w, im.h, new[1], new[2]))]

\* torchvision.transforms.Resize(size): the image itself when its shorter
\* edge already is size, else Image.resize to ResizedSize, bilinear.
Resize(size, im) ==
    LET new == ResizedSize(size, im.w, im.h)
    IN IF Min(im.w, im.h) = size THEN im
       ELSE [im EXCEPT !.w = new[1], !.h = new[2],
                       !.hist = Append(@, Op("resize", im.mode, im.w, im.h, new[1], new[2]))]

\* A filter that keeps state between calls: it sharpens only while no call
\* of the pipeline has completed.
SharpenStateful(im) ==
    IF calls = {}
    THEN [im EXCEPT !.hist = Append(@, Op("sharpen", im.mode, im.w, im.h, im.w, im.h))]
    ELSE im

\* img.filter(ImageFilter.SHARPEN): a new image of the same mode and size.
Sharpen(im) ==
    [im EXCEPT !.hist = Append(@, Op("sharpen", im.mode, im.w, im.h, im.w, im.h))]

\* torchvision.transforms.ToTensor on an 8-bit PIL image: a float32 tensor
\* of shape (C, H, W) whose element (c, y, x) is band c of pixel (x, y),
\* divided by 255.
ToTensor(im) ==
    LET px == [q \in Probe(im.h) \X Probe(im.w) |-> PixelAt(im, q[2], q[1])]
    IN [type |-> "Tensor", dtype |-> "float32",
        shape |-> <<Bands(im.mode), im.h, im.w>>, scale |-> MaxPixel,
        data |-> [e \in (1..Bands(im.mode)) \X Probe(im.h) \X Probe(im.w)
                    |-> px[<<e[2], e[3]>>][e[1]]]]

\* A transform object: its class and its constructor's arguments.
Lambda(fn) == [name |-> fn, args |-> <<>>]

\* The Compose with sharpen ahead of Resize.
ComposeSwapped(conv, size, sharp) ==
    <<conv, sharp, [name |-> "Resize", args |-> <<size>>],
      [name |-> "ToTensor", args |-> <<>>]>>

\* transform = Compose([convert_to_RGB, Resize(size=...), sharpen, ToTensor()])
Compose(conv, size, sharp) ==
    <<conv, [name |-> "Resize", args |-> <<size>>], sharp,
      [name |-> "ToTensor", args |-> <<>>]>>

\* The size a Compose's Resize was constructed with.
ResizeTarget(tr) ==
    (CHOOSE t \in {tr[n] : n \in 1..Len(tr)} : t.name = "Resize").args[1]

\* Calling one transform of a Compose on a value.
Apply(t, v) ==
    CASE t.name = "convert_to_RGB" -> ConvertToRGB(v)
      [] t.name = "Resize" -> Resize(t.args[1], v)
      [] t.name = "sharpen" -> Sharpen(v)
      [] t.name = "ToTensor" -> ToTensor(v)

\* Whether calling the transform on the value raises.
Raises(t, v) == t.name = "Resize" /\ ResizeRaises(t.args[1], v)

\* ---------------------------------------------------------------- dataset
Image(mode, w, h, tile) ==
    [mode |-> mode, w |-> w, h |-> h, tile |-> tile, hist |-> <<>>]

\* The images and labels datasets are drawn from: a 28x28 grayscale digit as
\* MNIST stores it, and images of other modes, sizes and aspect ratios.
Catalogue ==
    << [img |-> Image("RGB", 256, 256,
                      << << <<255, 0, 90>>, <<0, 255, 10>> >>,
                         << <<0, 40, 255>>, <<255, 200, 0>> >> >>),
        label |-> 0],
       [img |-> Image("L", 28, 28, << << <<0>>, <<255>> >>, << <<128>>, <<37>> >> >>),
        label |-> 5],
       [img |-> Image("L", 3, 2, << << <<255>>, <<0>> >>, << <<0>>, <<255>> >> >>),
        label |-> 4],
       [img |-> Image("RGBA", 2, 2,
                      << << <<10, 200, 90, 128>>, <<255, 255, 255, 0>> >>,
                         << <<0, 0, 0, 255>>, <<250, 5, 130, 77>> >> >>),
        label |-> 1],
       [img |-> Image("RGB", 2, 5,
                      << << <<0, 0, 0>>, <<255, 255, 255>> >>,
                         << <<255, 255, 255>>, <<0, 0, 0>> >> >>),
        label |-> 9],
       [img |-> Image("L", 512, 300, << << <<0>>, <<255>> >>, << <<255>>, <<0>> >> >>),
        label |-> 2],
       [img |-> Image("RGB", 300, 256,
                      << << <<255, 255, 255>>, <<0, 0, 0>> >>,
                         << <<9, 90, 200>>, <<255, 255, 255>> >> >>),
        label |-> 5] >>

\* A dataset is a run of NumSamples consecutive entries of the catalogue.
Dataset(start) ==
    [i \in 1..NumSamples |-> Catalogue[((start + i - 2) % Len(Catalogue)) + 1]]

\* The resize targets a pipeline is constructed with.
ResizeSizes == {-1, 0, ResizeSize}

\* A Python int.
PyInt(n) == [type |-> "int", dtype |-> "int", shape |-> <<>>, scale |-> 1, data |-> <<n>>]

None == [type |-> "NoneType"]

Init ==
    /\ pc = "cell5"
    /\ \E start \in 1..Len(Catalogue) : data = Dataset(start)
    /\ convert_to_RGB = None /\ sharpen = None
    /\ transform = <<>>
    /\ mnist_trainset = None /\ train_loader = None
    /\ it = -1
    /\ epoch = 0
    /\ jobs = <<>>
    /\ img = None /\ lbl = None
    /\ err = "none"
    /\ calls = {}

\* ------------------------------------------------------------ the loader
\* default_collate of a batch: tensors are stacked along a new first
\* dimension, Python ints become one int64 tensor of the batch's length.
Collate(batch) ==
    IF batch[1].type = "Tensor"
    THEN [type |-> "Tensor", dtype |-> batch[1].dtype,
          shape |-> <<Len(batch)>> \o batch[1].shape, scale |-> batch[1].scale,
          data |-> [n \in 1..Len(batch) |-> batch[n].data]]
    ELSE [type |-> "Tensor", dtype |-> "int64", shape |-> <<Len(batch)>>,
          scale |-> 1, data |-> [n \in 1..Len(batch) |-> batch[n].data[1]]]

\* A loader with one worker process, which prefetches.
MaxInFlightPrefetch == 2 * (NumWorkers + 1) * BatchSize

\* The number of samples that may be in evaluation at once: with
\* num_workers = 0 the caller evaluates each sample itself, with workers
\* each of them prefetches two batches.
MaxInFlight == IF NumWorkers = 0 THEN 1 ELSE 2 * NumWorkers * BatchSize

\* A __getitem__ that pairs the image with the label of the next sample.
GetItemShifted(index) ==
    [idx |-> index, k |-> 0, input |-> data[index + 1].img,
     cur |-> data[index + 1].img,
     target |-> PyInt(data[((index + 1) % Len(data)) + 1].label)]

\* MNIST.__getitem__(index), up to the call of the transform: the stored
\* image as a PIL image and the stored label as an int.
GetItem(index) ==
    [idx |-> index, k |-> 0, input |-> data[index + 1].img,
     cur |-> data[index + 1].img, target |-> PyInt(data[index + 1].label)]

\* A round that writes the result into the image it was given.
AdvanceInPlace(job, t) ==
    [job EXCEPT !.cur = Apply(t, job.cur), !.input = Apply(t, job.cur), !.k = job.k + 1]

\* Compose.__call__, one round of its loop: img = t(img).
Advance(job, t) == [job EXCEPT !.cur = Apply(t, job.cur), !.k = job.k + 1]

\* What a completed __getitem__ and the batch made of it are recorded as.
Record(job, size) ==
    [idx |-> job.idx, epoch |-> epoch, size |-> size, input |-> job.input, out |-> job.cur,
     target |-> job.target, lbl |-> Collate(<<job.target>>)]

\* ---------------------------------------------------------------- actions
\* Cell 5: convert_to_RGB = Lambda(lambda img: img.convert('RGB'))
DefineConvert ==
    /\ pc = "cell5"
    /\ convert_to_RGB' = Lambda("convert_to_RGB")
    /\ pc' = "cell6"
    /\ UNCHANGED <<data, sharpen, transform, mnist_trainset, train_loader,
                   it, epoch, jobs, img, lbl, err, calls>>

\* Cell 6: sharpen = Lambda(lambda img: img.filter(ImageFilter.SHARPEN))
DefineSharpen ==
    /\ pc = "cell6"
    /\ sharpen' = Lambda("sharpen")
    /\ pc' = "cell7"
    /\ UNCHANGED <<data, convert_to_RGB, transform, mnist_trainset, train_loader,
                   it, epoch, jobs, img, lbl, err, calls>>

\* Cell 7: the Compose is constructed; Resize's constructor takes any int.
ConstructTransform ==
    /\ pc = "cell7"
    /\ \E size \in ResizeSizes : transform' = Compose(convert_to_RGB, size, sharpen)
    /\ pc' = "cell8"
    /\ UNCHANGED <<data, convert_to_RGB, sharpen, mnist_trainset, train_loader,
                   it, epoch, jobs, img, lbl, err, calls>>

\* Cell 8: the dataset and the loader.
ConstructLoader ==
    /\ pc = "cell8"
    /\ mnist_trainset' = [type |-> "MNIST", train |-> TRUE, transform |-> transform]
    /\ train_loader' = [type |-> "DataLoader", batch_size |-> BatchSize,
                        num_workers |-> NumWorkers]
    /\ pc' = "cell9"
    /\ UNCHANGED <<data, convert_to_RGB, sharpen, transform, it, epoch, jobs, img,
                   lbl, err, calls>>

\* Cell 9, iter(train_loader): a new iterator at the first sample.
Iter ==
    /\ pc = "cell9"
    /\ jobs = <<>>
    /\ epoch < MaxEpochs
    /\ it' = 0
    /\ epoch' = epoch + 1
    /\ UNCHANGED <<pc, data, convert_to_RGB, sharpen, transform, mnist_trainset,
                   train_loader, jobs, img, lbl, err, calls>>

\* Cell 9, next(...): the next sample is requested from the dataset.
Fetch ==
    /\ pc = "cell9"
    /\ it >= 0 /\ it < Len(data)
    /\ Len(jobs) < MaxInFlight
    /\ jobs' = Append(jobs, GetItem(it))
    /\ it' = it + 1
    /\ UNCHANGED <<pc, data, convert_to_RGB, sharpen, transform, mnist_trainset,
                   train_loader, epoch, img, lbl, err, calls>>

\* The next transform of the dataset's Compose is applied to a sample.
Step ==
    /\ pc = "cell9"
    /\ \E i \in 1..Len(jobs) :
          /\ jobs[i].k < Len(mnist_trainset.transform)
          /\ ~Raises(mnist_trainset.transform[jobs[i].k + 1], jobs[i].cur)
          /\ jobs' = [jobs EXCEPT ![i] = Advance(@, mnist_trainset.transform[@.k + 1])]
    /\ UNCHANGED <<pc, data, convert_to_RGB, sharpen, transform, mnist_trainset,
                   train_loader, it, epoch, img, lbl, err, calls>>

\* A transform raises: the exception leaves __getitem__, next() and the cell.
Fail ==
    /\ pc = "cell9"
    /\ \E i \in 1..Len(jobs) :
          /\ jobs[i].k < Len(mnist_trainset.transform)
          /\ Raises(mnist_trainset.transform[jobs[i].k + 1], jobs[i].cur)
    /\ err' = "ValueError"
    /\ jobs' = <<>>
    /\ pc' = "error"
    /\ UNCHANGED <<data, convert_to_RGB, sharpen, transform, mnist_trainset,
                   train_loader, it, epoch, img, lbl, calls>>

\* The oldest sample is complete: it is collated and next() returns
\* img, lbl.
Deliver ==
    /\ pc = "cell9"
    /\ jobs # <<>>
    /\ jobs[1].k = Len(mnist_trainset.transform)
    /\ img' = Collate(<<jobs[1].cur>>)
    /\ lbl' = Collate(<<jobs[1].target>>)
    /\ calls' = calls \cup {Record(jobs[1], ResizeTarget(mnist_trainset.transform))}
    /\ jobs' = Tail(jobs)
    /\ UNCHANGED <<pc, data, convert_to_RGB, sharpen, transform, mnist_trainset,
                   train_loader, it, epoch, err>>

Next ==
    \/ DefineConvert
    \/ DefineSharpen
    \/ ConstructTransform
    \/ ConstructLoader
    \/ Iter
    \/ Fetch
    \/ Step
    \/ Fail
    \/ Deliver

Spec == Init /\ [][Next]_vars

\* ----------------------------------------------------------------- claims
\* The resize target of the pipeline the dataset carries.
S == ResizeTarget(mnist_trainset.transform)

\* C1: the pipeline's result is the left-to-right fold of its transforms in
\* the configured order, tensorize(sharpen(resize(convert_to_RGB(image)))):
\* after k transforms the value is that of the first k of them applied in
\* this order to the input, each once, each to the output of the one before.
C1_Fold ==
    /\ \A i \in 1..Len(jobs) :
          LET j == jobs[i]
              a == ConvertToRGB(j.input)
              b == Resize(S, a)
              c == Sharpen(b)
          IN /\ j.k = 0 => j.cur = j.input
             /\ j.k = 1 => j.cur = a
             /\ j.k = 2 => j.cur = b
             /\ j.k = 3 => j.cur = c
             /\ j.k = 4 => j.cur = ToTensor(c)
             /\ j.k <= 4

\* A grayscale image has gone through all four transforms.
C1_Witness ==
    \E i \in 1..Len(jobs) :
        jobs[i].k = 4 /\ jobs[i].input.mode = "L" /\ jobs[i].cur.type = "Tensor"

\* C2, as claimed: the output tensor has shape (C, S, S) = (3, S, S) for
\* every input image, whatever its width, height and aspect ratio.
C2_ShapeSquare ==
    \A r \in calls : r.out.shape = <<3, r.size, r.size>>

\* C2, amended: the output tensor has shape (3, H, W) where the shorter edge
\* of the input has become S and the longer one floor(S * long / short); it
\* is (3, S, S) for every square input of any colour mode, and (3, 256, 256)
\* for a grayscale 28x28 input.
C2_ShapeShorterEdge ==
    \A r \in calls :
        /\ r.out.shape[1] = 3
        /\ IF r.input.w <= r.input.h
           THEN /\ r.out.shape[3] = r.size
                /\ r.out.shape[2] = (r.size * r.input.h) \div r.input.w
           ELSE /\ r.out.shape[2] = r.size
                /\ r.out.shape[3] = (r.size * r.input.w) \div r.input.h
        /\ r.input.w = r.input.h => r.out.shape = <<3, r.size, r.size>>
        /\ (r.input.w = 28 /\ r.input.h = 28 /\ r.size = ResizeSize)
              => r.out.shape = <<3, 256, 256>>

\* The 28x28 grayscale image and a non-square image have both been processed.
C2_Witness ==
    /\ \E r \in calls : r.input.mode = "L" /\ r.input.w = 28 /\ r.input.h = 28
    /\ \E r \in calls : r.input.w # r.input.h

\* C3, as claimed: the lbl obtained from the loader is the dataset's label,
\* unchanged in value and in type.
C3_LabelUnchanged ==
    \A r \in calls : r.lbl = PyInt(data[r.idx + 1].label)

\* C3, amended: the label the dataset returns with the transformed image is
\* the stored label, an int of the same value, whatever transforms have run;
\* the loader's batching wraps it: lbl is an int64 tensor of shape (1,)
\* whose one element has the label's value.
C3_LabelValue ==
    /\ \A i \in 1..Len(jobs) : jobs[i].target = PyInt(data[jobs[i].idx + 1].label)
    /\ \A r \in calls :
          /\ r.target = PyInt(data[r.idx + 1].label)
          /\ r.lbl.type = "Tensor" /\ r.lbl.dtype = "int64"
          /\ r.lbl.shape = <<BatchSize>>
          /\ r.lbl.data = <<data[r.idx + 1].label>>
    /\ lbl # None => \E r \in calls : lbl = r.lbl

\* A batch has been returned and its label is held by the consumer.
C3_Witness ==
    /\ lbl # None
    /\ \E r \in calls : r.lbl = lbl /\ r.idx >= 1

\* C4: a pipeline with a zero or negative resize target is rejected when it
\* is constructed: none exists after construction, and no sample is ever
\* handed to one.
C4_RejectedAtConstruction ==
    /\ transform # <<>> => ResizeTarget(transform) > 0
    /\ jobs # <<>> => S > 0

\* C5: every element of every output tensor lies in [0.0, 1.0].
C5_Range ==
    /\ \A r \in calls :
          \A e \in DOMAIN r.out.data :
              0 <= r.out.data[e] /\ r.out.data[e] <= r.out.scale
    /\ \A i \in 1..Len(jobs) :
          jobs[i].k = 4 =>
              \A e \in DOMAIN jobs[i].cur.data :
                  0 <= jobs[i].cur.data[e] /\ jobs[i].cur.data[e] <= jobs[i].cur.scale

\* An output tensor holds both 0.0 and 1.0.
C5_Witness ==
    \E r \in calls :
        /\ \E e \in DOMAIN r.out.data : r.out.data[e] = r.out.scale
        /\ \E e \in DOMAIN r.out.data : r.out.data[e] = 0

C7_ConvertIdempotent ==
    \A i \in 1..Len(jobs) :
        jobs[i].k = 1 => SameImage(ConvertToRGB(jobs[i].cur), jobs[i].cur)

\* convert_to_RGB has been applied to an image that was not RGB.
C7_Witness ==
    \E i \in 1..Len(jobs) :
        jobs[i].k = 1 /\ jobs[i].input.mode = "RGBA" /\ jobs[i].cur.mode = "RGB"

\* C8: running the pipeline changes neither the image it is given nor the
\* stored data, and the pipeline the dataset carries stays as constructed.
C8_NoSideEffects ==
    /\ [](/\ \A i \in 1..Len(jobs) : jobs[i].input = data[jobs[i].idx + 1].img
          /\ \A r \in calls : r.input = data[r.idx + 1].img
          /\ mnist_trainset # None => mnist_trainset.transform = transform)
    /\ [][/\ data' = data
          /\ transform # <<>> => transform' = transform
          /\ mnist_trainset # None => mnist_trainset' = mnist_trainset]_vars

\* A sample has gone through the pipeline after others were processed.
C8_Witness ==
    /\ Cardinality(calls) >= 2
    /\ jobs # <<>> /\ jobs[1].k = 4

\* C9: for an input that already is RGB and 256x256, convert_to_RGB and
\* Resize(256) return the image as it is, without resampling, and the output
\* is tensorize(sharpen(input)), of shape (3, 256, 256).
C9_NoResampling ==
    /\ \A i \in 1..Len(jobs) :
          LET j == jobs[i]
          IN (j.input.mode = "RGB" /\ j.input.w = S /\ j.input.h = S /\ j.k \in {1, 2})
                => j.cur = j.input
    /\ \A r \in calls :
          (r.input.mode = "RGB" /\ r.input.w = 256 /\ r.input.h = 256 /\ r.size = 256)
             => /\ r.out = ToTensor(Sharpen(r.input))
                /\ r.out.shape = <<3, 256, 256>>

\* The RGB 256x256 image has been processed, and sharpening changed it.
C9_Witness ==
    \E r \in calls :
        /\ r.input.mode = "RGB" /\ r.input.w = 256 /\ r.input.h = 256
        /\ r.out # ToTensor(r.input)

\* C10: a sample is requested from the dataset only when the one requested
\* before it has left the pipeline: at most one image is in the pipeline.
C10_Sequential ==
    /\ Len(jobs) <= 1
    /\ jobs # <<>> => jobs[1].idx = it - 1

\* A later sample is in the pipeline after the first was delivered.
C10_Witness ==
    /\ Len(jobs) = 1 /\ jobs[1].idx >= 1 /\ jobs[1].k \in 1..3
    /\ calls # {}
====
